---- MODULE Spec2Model ----
(***************************************************************************)
(* TickerSelect, the searchable ticker dropdown of js/ticker-select.js,    *)
(* as a state machine: the widget object, the DOM nodes it owns or writes, *)
(* the lookup requests in flight and the browser events that drive it.     *)
(*                                                                         *)
(* A text is a sequence of one-character strings, so that trimming, upper- *)
(* casing, prefix and substring tests are computed and not assumed.        *)
(* JavaScript null is the empty tuple where a record is expected           *)
(* (selected) and NullText where a text is expected (sector).              *)
(***************************************************************************)
EXTENDS Integers, Sequences, FiniteSets, Bags, TLC

VARIABLES
    cfg,        \* the page: which elements and globals exist, the constructor's options
    ts,         \* the TickerSelect object's fields
    dom,        \* the DOM nodes the widget builds or writes
    net,        \* lookup requests in flight, requests made so far, timers pending,
                \* callback calls and throw of the last step
    focused,    \* whether the user has put the focus in the bound input yet
    ev,         \* the event or public call handled by the last step
    events      \* how many events and public calls this behaviour has handled

vars == <<cfg, ts, dom, net, focused, ev, events>>

----------------------------------------------------------------------------
(* Bounds *)

\* Browser events and public calls one behaviour may contain (the completions
\* of the lookups they start come on top).
MaxEvents == 4

\* Network lookups one behaviour may start (the pre-warm included).
MaxNet == 3

\* Events and public calls of a behaviour checked for liveness.
MaxLiveEvents == 2

\* Entries of the longest static table the fallback is checked on.
MaxTable == 52

----------------------------------------------------------------------------
(* Texts *)

Min(a, b) == IF a < b THEN a ELSE b
Max(a, b) == IF a > b THEN a ELSE b

\* String.prototype.toUpperCase on one character of the alphabet.
UpperChar(c) == CASE c = "a" -> "A" [] c = "b" -> "B" [] OTHER -> c

toUpperCase(s) == [i \in 1..Len(s) |-> UpperChar(s[i])]

RECURSIVE trimStart(_)
trimStart(s) == IF s # <<>> /\ Head(s) = " " THEN trimStart(Tail(s)) ELSE s

RECURSIVE trimEnd(_)
trimEnd(s) == IF s # <<>> /\ s[Len(s)] = " " THEN trimEnd(SubSeq(s, 1, Len(s) - 1)) ELSE s

trim(s) == trimEnd(trimStart(s))

\* A query that is upper-cased but not trimmed.
normalize_noTrim(s) == toUpperCase(s)

\* The query of a focus or input event: input.value.trim().toUpperCase().
normalize(s) == toUpperCase(trim(s))

startsWith(s, p) == Len(p) <= Len(s) /\ SubSeq(s, 1, Len(p)) = p

includes(s, p) == \E i \in 1..(Len(s) - Len(p) + 1) : SubSeq(s, i, i + Len(p) - 1) = p

\* Array.prototype.slice(0, n).
slice(list, n) == SubSeq(list, 1, Min(n, Len(list)))

RECURSIVE filter(_, _)
\* Array.prototype.filter with the fallback's predicate for query q.
filter(list, q) ==
    IF list = <<>> THEN <<>>
    ELSE LET t == Head(list)
             rest == filter(Tail(list), q)
         IN IF startsWith(t.ticker, q) \/ includes(toUpperCase(t.name), q)
            THEN <<t>> \o rest ELSE rest

RECURSIVE flat(_)
\* Array.prototype.flat of a list of lists.
flat(lists) == IF lists = <<>> THEN <<>> ELSE Head(lists) \o flat(Tail(lists))

RECURSIVE find(_, _)
\* Array.prototype.find(t => t.ticker === ticker), as <<>> or <<record>>.
find(list, ticker) ==
    IF list = <<>> THEN <<>>
    ELSE IF Head(list).ticker = ticker THEN <<Head(list)>>
    ELSE find(Tail(list), ticker)

----------------------------------------------------------------------------
(* Data of the page and of the lookup service *)

NullText == <<"null">>

T_A  == <<"A">>
T_AB == <<"A", "B">>
T_ab == <<"a", "b">>

R_AB  == [ticker |-> T_AB, name |-> <<"a", "b">>, sector |-> <<"S">>]
R_A   == [ticker |-> T_A,  name |-> <<"B", "a">>, sector |-> NullText]

\* The candidate lists a response of the lookup service may carry.
Responses == { <<R_AB, R_A>> }

\* What one request can come to: a body with a tickers list, a body without
\* the field, or a network / parse failure.
Outcomes ==
    { [ok |-> TRUE, hasTickers |-> TRUE, tickers |-> l] : l \in Responses }
    \cup { [ok |-> TRUE, hasTickers |-> FALSE, tickers |-> <<>>],
           [ok |-> FALSE, hasTickers |-> FALSE, tickers |-> <<>>] }

\* A record whose symbol is not in upper case.
R_Ab  == [ticker |-> <<"A", "b">>, name |-> <<"1">>, sector |-> NullText]

\* The static table of idx-tickers.js, when the page loads it.
IDX_TICKERS == <<R_AB, R_A>>

\* The table of n entries that repeats pattern.
TableOf(n, pattern) == [i \in 1..n |-> pattern[((i - 1) % Len(pattern)) + 1]]

\* The static tables the fallback is checked on: shorter and longer than its
\* two caps, with symbols in upper case and not.
Tables ==
    { TableOf(n, pattern) :
        n \in 0..MaxTable,
        pattern \in { <<R_AB, R_A>>, <<R_A>>, <<R_AB, R_Ab>>, <<R_Ab, R_A, R_AB>> } }

FallbackCapQuery == 30
FallbackCapEmpty == 50

\* What the user can type into the input.
Typed == { <<>>, <<" ", "a">>, T_ab }

\* The arguments setValue is called with.
SetValueArgs == { T_AB, T_ab }

\* The pages the widget is constructed on.
Configs ==
    { [input |-> TRUE,  fallback |-> TRUE,  onChange |-> TRUE,  nameField |-> TRUE,
       sectorField |-> TRUE,  table |-> IDX_TICKERS],
      [input |-> TRUE,  fallback |-> FALSE, onChange |-> FALSE, nameField |-> FALSE,
       sectorField |-> FALSE, table |-> <<>>],
      [input |-> FALSE, fallback |-> TRUE,  onChange |-> TRUE,  nameField |-> TRUE,
       sectorField |-> TRUE,  table |-> IDX_TICKERS] }

\* The pages the fallback is checked on: the widget installed, a static table.
TableConfigs ==
    { [input |-> TRUE, fallback |-> TRUE, onChange |-> TRUE, nameField |-> TRUE,
       sectorField |-> TRUE, table |-> t] : t \in Tables }

----------------------------------------------------------------------------
(* The query cache: a JavaScript object, so its keys keep insertion order *)

cached(cache, q) == \E i \in 1..Len(cache) : cache[i].key = q

cacheGet(cache, q) == cache[CHOOSE i \in 1..Len(cache) : cache[i].key = q].list

\* this.cache[q] = list
cachePut(cache, q, list) ==
    IF cached(cache, q)
    THEN [i \in 1..Len(cache) |->
            IF cache[i].key = q THEN [key |-> q, list |-> list] ELSE cache[i]]
    ELSE Append(cache, [key |-> q, list |-> list])

\* Object.values(this.cache)
values(cache) == [i \in 1..Len(cache) |-> cache[i].list]

cacheKeys(cache) == { cache[i].key : i \in 1..Len(cache) }

----------------------------------------------------------------------------
(* The widget's methods, as functions of the world w = [ts, dom, net] *)

PlaceholderHtml   == "(page markup)"
PlaceholderManual == "Ketik nama perusahaan..."
PlaceholderAuto   == "Otomatis terisi saat pilih ticker"

\* The fields the constructor sets, the nodes _build creates, the page's fields.
Constructed ==
    [ ts  |-> [ selected         |-> <<>>,
                dropdownVisible  |-> FALSE,
                highlightedIndex |-> -1,
                debounceTimer    |-> FALSE,
                cache            |-> <<>>,
                loading          |-> FALSE,
                currentResults   |-> <<>> ],
      dom |-> [ value           |-> <<>>,
                paddingRight    |-> "",
                badgeDisplay    |-> "none",
                badgeText       |-> <<>>,
                spinnerDisplay  |-> "none",
                dropdownDisplay |-> "none",
                panel           |-> "blank",
                items           |-> <<>>,
                manualQ         |-> <<>>,
                nameEl          |-> [value |-> <<>>, readOnly |-> TRUE,
                                     placeholder |-> PlaceholderHtml],
                sectorValue     |-> <<>> ],
      net |-> [ inflight |-> EmptyBag,
                calls    |-> EmptyBag,
                timers   |-> 0,
                onChange |-> <<>>,
                thrown   |-> FALSE ] ]

_show(w) == [w EXCEPT !.dom.dropdownDisplay = "block", !.ts.dropdownVisible = TRUE]

_hide(w) == [w EXCEPT !.dom.dropdownDisplay = "none", !.ts.dropdownVisible = FALSE]

\* The dropdown's content becomes the "Mencari ticker..." panel: no rows.
_showLoading(w) ==
    [w EXCEPT !.dom.panel = "loading", !.dom.items = <<>>, !.dom.manualQ = <<>>]

\* _render with _bindManualOption: the rows are the results, the manual row
\* exists (and is bound to q) exactly when q is not empty.
_render(w, results, q) ==
    [w EXCEPT !.ts.currentResults = results,
              !.ts.highlightedIndex = -1,
              !.dom.panel = IF Len(results) = 0 THEN "notfound" ELSE "results",
              !.dom.items = results,
              !.dom.manualQ = q]

\* A callback invoked twice.
fireOnChange_twice(w, record) ==
    IF cfg.onChange THEN [w EXCEPT !.net.onChange = Append(Append(@, record), record)] ELSE w

\* if (this.onChange) this.onChange(record)
fireOnChange(w, record) ==
    IF cfg.onChange THEN [w EXCEPT !.net.onChange = Append(@, record)] ELSE w

_selectManual(w, ticker) ==
    LET rec == [ticker |-> toUpperCase(ticker), name |-> <<>>, sector |-> <<>>,
                manual |-> TRUE]
        w1 == [w EXCEPT !.ts.selected = <<rec>>,
                        !.dom.value = toUpperCase(ticker),
                        !.dom.nameEl = IF cfg.nameField
                                       THEN [value |-> <<>>, readOnly |-> FALSE,
                                             placeholder |-> PlaceholderManual]
                                       ELSE @,
                        !.dom.sectorValue = IF cfg.sectorField THEN <<>> ELSE @,
                        !.dom.badgeDisplay = "none",
                        !.dom.paddingRight = ""]
    IN fireOnChange(_hide(w1), rec)

\* A pick that leaves the text of the input as the user typed it.
_select_keepText(w, item) ==
    fireOnChange(_hide([w EXCEPT !.ts.selected = <<item>>,
                                 !.dom.badgeText = item.name,
                                 !.dom.badgeDisplay = "block",
                                 !.dom.paddingRight = "210px"]), item)

_select(w, item) ==
    LET w1 ==[w EXCEPT !.ts.selected = <<item>>,
                        !.dom.value = item.ticker,
                        !.dom.nameEl.value = IF cfg.nameField THEN item.name ELSE @,
                        !.dom.sectorValue =
                            IF cfg.sectorField
                            THEN (IF item.sector = NullText THEN <<>> ELSE item.sector)
                            ELSE @,
                        !.dom.badgeText = item.name,
                        !.dom.badgeDisplay = "block",
                        !.dom.paddingRight = "210px"]
    IN fireOnChange(_hide(w1), item)

_onKeydown(w, key) ==
    LET n == Len(w.dom.items)      \* querySelectorAll('.ts-item').length
        hi == w.ts.highlightedIndex
    IN CASE key = "ArrowDown" -> [w EXCEPT !.ts.highlightedIndex = Min(hi + 1, n - 1)]
         [] key = "ArrowUp"   -> [w EXCEPT !.ts.highlightedIndex = Max(hi - 1, 0)]
         [] key = "Enter"     ->
                IF hi >= 0 /\ hi + 1 <= Len(w.ts.currentResults)
                THEN _select(w, w.ts.currentResults[hi + 1])
                ELSE w
         [] key = "Escape"    -> _hide(w)
         [] OTHER             -> w

\* A reset that leaves the name field as it is.
_resetNameField_skip(w) == w

_resetNameField(w) ==
    IF cfg.nameField
    THEN [w EXCEPT !.dom.nameEl = [value |-> <<>>, readOnly |-> TRUE,
                                   placeholder |-> PlaceholderAuto]]
    ELSE w

\* Without the input element, this.input is null: line 359 runs, line 360 throws.
clear(w) ==
    IF ~cfg.input
    THEN [w EXCEPT !.ts.selected = <<>>, !.net.thrown = TRUE]
    ELSE _resetNameField(_hide([w EXCEPT !.ts.selected = <<>>,
                                         !.dom.value = <<>>,
                                         !.dom.badgeDisplay = "none",
                                         !.dom.paddingRight = ""]))

\* The static fallback of the catch branch, over a given table.
fallbackOf(table, query) ==
    LET q == toUpperCase(query)
    IN IF q # <<>>
       THEN slice(filter(table, q), FallbackCapQuery)
       ELSE slice(table, FallbackCapEmpty)

\* IDX_TICKERS is the table the page has loaded.
fallback(query) == fallbackOf(cfg.table, query)

\* _fetchTickers from the cache miss to the fetch() call: the request leaves.
_fetchTickers_request(w, query, kind) ==
    [w EXCEPT !.ts.loading = TRUE,
              !.dom.spinnerDisplay = "block",
              !.net.inflight = @ (+) SetToBag({[query |-> query, kind |-> kind]}),
              !.net.calls = @ (+) SetToBag({query})]

\* What _fetchTickers returns once its request has come to outcome.
fetchResults(query, outcome) ==
    IF outcome.ok
    THEN (IF outcome.hasTickers THEN outcome.tickers ELSE <<>>)  \* json.tickers ?? []
    ELSE IF cfg.fallback THEN fallback(query) ELSE <<>>

\* The exit path of _fetchTickers for that outcome.
fetchPath(outcome) ==
    IF outcome.ok THEN "remote" ELSE IF cfg.fallback THEN "fallback" ELSE "empty"

\* Whether that exit path stores its result in the cache.
fetchStores(outcome) == outcome.ok \/ cfg.fallback

\* The indicator cleared on the paths that store a result only, not in a finally.
_fetchTickers_settle_noFinally(w, query, outcome) ==
    [w EXCEPT !.ts.cache = IF fetchStores(outcome)
                           THEN cachePut(@, query, fetchResults(query, outcome))
                           ELSE @,
              !.ts.loading = IF fetchStores(outcome) THEN FALSE ELSE @,
              !.dom.spinnerDisplay = IF fetchStores(outcome) THEN "none" ELSE @]

\* _fetchTickers from the response to its return: cache, then the finally block.
_fetchTickers_settle(w, query, outcome) ==
    [w EXCEPT !.ts.cache = IF fetchStores(outcome)
                           THEN cachePut(@, query, fetchResults(query, outcome))
                           ELSE @,
              !.ts.loading = FALSE,
              !.dom.spinnerDisplay = "none"]

\* An _onInput that drops a result whose query is no longer the input's.
continuation_dropStale(w, task, results) ==
    CASE task.kind = "onInput"  ->
            IF task.query = normalize(w.dom.value)
            THEN _render(w, results, task.query) ELSE w
      [] task.kind = "setValue" ->
            LET match == find(results, task.query)
            IN IF match # <<>> THEN _select(w, match[1]) ELSE w
      [] OTHER -> w

\* The code that awaits _fetchTickers: nothing (pre-warm), the _render of
\* _onInput, or the then-callback of setValue.
continuation(w, task, results) ==
    CASE task.kind = "onInput"  -> _render(w, results, task.query)
      [] task.kind = "setValue" ->
            LET match == find(results, task.query)
            IN IF match # <<>> THEN _select(w, match[1]) ELSE w
      [] OTHER -> w

\* _fetchTickers(query) and the code awaiting it. A cache hit resolves in a
\* microtask, before any other event is handled; a miss sends a request.
_fetchTickers(w, query, kind) ==
    IF cached(w.ts.cache, query)
    THEN continuation(w, [query |-> query, kind |-> kind], cacheGet(w.ts.cache, query))
    ELSE _fetchTickers_request(w, query, kind)

_onInput(w) ==
    LET q == normalize(w.dom.value)
    IN _fetchTickers(_show(_showLoading(w)), q, "onInput")

\* A focus listener that looks the query up afresh, cached or not.
onFocus_alwaysFetch(w) ==
    _fetchTickers_request(_show(_showLoading(w)), normalize(w.dom.value), "onInput")

\* The focus listener of _bind.
onFocus(w) ==
    LET q == normalize(w.dom.value)
    IN IF cached(w.ts.cache, q)
       THEN _show(_render(w, cacheGet(w.ts.cache, q), q))
       ELSE _onInput(w)

\* An input listener whose _debounce arms a timer without cancelling the last.
onInputEvent_noCancel(w) ==
    [w EXCEPT !.dom.badgeDisplay = "none",
              !.dom.paddingRight = "",
              !.net.timers = @ + 1,
              !.ts.debounceTimer = TRUE]

\* The input listener of _bind, with _debounce: clearTimeout cancels the timer
\* the handle names if it is still pending, setTimeout arms a new one and the
\* handle names it. debounceTimer is whether the handle names a pending timer.
onInputEvent(w) ==
    [w EXCEPT !.dom.badgeDisplay = "none",
              !.dom.paddingRight = "",
              !.net.timers = (IF w.ts.debounceTimer THEN @ - 1 ELSE @) + 1,
              !.ts.debounceTimer = TRUE]

\* A setValue that looks its ticker up as a cache key, not in the cached lists.
setValue_byKey(w, ticker) ==
    LET found == IF cached(w.ts.cache, ticker)
                 THEN find(cacheGet(w.ts.cache, ticker), ticker) ELSE <<>>
    IN IF found # <<>> THEN _select(w, found[1])
       ELSE IF ~cfg.input THEN [w EXCEPT !.net.thrown = TRUE]
       ELSE _fetchTickers([w EXCEPT !.dom.value = ticker], ticker, "setValue")

\* Without the input element, line 390 throws (the cache is then empty).
setValue(w, ticker) ==
    LET found == find(flat(values(w.ts.cache)), ticker)
    IN IF found # <<>> THEN _select(w, found[1])
       ELSE IF ~cfg.input THEN [w EXCEPT !.net.thrown = TRUE]
       ELSE _fetchTickers([w EXCEPT !.dom.value = ticker], ticker, "setValue")

----------------------------------------------------------------------------
(* The state machine *)

\* The world an event handler starts from: the callback and throw records
\* are those of the step being taken.
World ==
    [ ts |-> ts, dom |-> dom,
      net |-> [net EXCEPT !.onChange = <<>>, !.thrown = FALSE] ]

\* The step to world w, handling event e.
Step(w, e) ==
    /\ BagCardinality(w.net.calls) <= MaxNet
    /\ ts' = w.ts
    /\ dom' = w.dom
    /\ net' = w.net
    /\ ev' = e
    /\ UNCHANGED cfg

\* new TickerSelect({...}): without the input element the constructor returns
\* at line 33; with it, _build, _bind and the pre-warm lookup of ''.
Init ==
    /\ cfg \in Configs
    /\ LET w == IF cfg.input
                THEN _fetchTickers(Constructed, <<>>, "prewarm")
                ELSE Constructed
       IN /\ ts = w.ts
          /\ dom = w.dom
          /\ net = w.net
    /\ focused = FALSE
    /\ ev = [op |-> "construct"]
    /\ events = 0

\* One more event or public call, within the bound.
Event ==
    /\ events < MaxEvents
    /\ events' = events + 1

\* The user gives the input the focus. The widget listens to no blur event, so
\* the focus leaving the input (the user's doing, or the manual entry's
\* nameEl.focus()) changes nothing and is no step: it has happened, unseen,
\* before any focus event but the first.
Focus ==
    /\ Event
    /\ cfg.input
    /\ focused' = TRUE
    /\ Step(onFocus(World), [op |-> "focus"])

\* The user edits the text: an input event.
InputEvent ==
    /\ Event
    /\ cfg.input
    /\ focused
    /\ \E text \in Typed \ {dom.value} :
          Step(onInputEvent([World EXCEPT !.dom.value = text]),
               [op |-> "input", pending |-> ts.debounceTimer])
    /\ UNCHANGED focused

\* A pending debounce timer fires, 220 ms after the input event that armed it.
DebounceFire ==
    /\ Event
    /\ net.timers > 0
    /\ Step(_onInput([World EXCEPT !.ts.debounceTimer = FALSE, !.net.timers = @ - 1]),
            [op |-> "debounce"])
    /\ UNCHANGED focused

\* A key goes down in the input.
KeyDown ==
    /\ Event
    /\ cfg.input
    /\ focused
    /\ \E key \in {"ArrowDown", "ArrowUp", "Enter", "Escape"} :
          Step(_onKeydown(World, key), [op |-> key])
    /\ UNCHANGED focused

\* Mouse-down on a rendered result row (the listener holds results[i]).
MouseDownRow ==
    /\ Event
    /\ ts.dropdownVisible
    /\ \E i \in 1..Len(dom.items) :
          Step(_select(World, dom.items[i]), [op |-> "mousedownRow", row |-> i])
    /\ UNCHANGED focused

\* Mouse-down on the manual row (the listener holds the q it was rendered with).
MouseDownManual ==
    /\ Event
    /\ ts.dropdownVisible
    /\ dom.manualQ # <<>>
    /\ Step(_selectManual(World, dom.manualQ),
            [op |-> "mousedownManual", text |-> dom.value])
    /\ UNCHANGED focused

\* A click outside the wrapper.
OutsideClick ==
    /\ Event
    /\ cfg.input
    /\ Step(_hide(World), [op |-> "click"])
    /\ UNCHANGED focused

\* A lookup request in flight comes to an outcome; _fetchTickers returns and
\* the code awaiting it runs.
FetchDone ==
    \E task \in BagToSet(net.inflight), outcome \in Outcomes :
        LET w0 == [World EXCEPT !.net.inflight = @ (-) SetToBag({task})]
            w1 == _fetchTickers_settle(w0, task.query, outcome)
        IN /\ Step(continuation(w1, task, fetchResults(task.query, outcome)),
                   [op |-> "fetchDone", task |-> task, path |-> fetchPath(outcome)])
           /\ UNCHANGED <<focused, events>>

\* The page calls clear().
Clear ==
    /\ Event
    /\ Step(clear(World), [op |-> "clear", had |-> ts.selected])
    /\ UNCHANGED focused

\* The page calls setValue(ticker).
SetValue ==
    /\ Event
    /\ \E ticker \in SetValueArgs :
          Step(setValue(World, ticker), [op |-> "setValue", ticker |-> ticker])
    /\ UNCHANGED focused

Next ==
    \/ Focus
    \/ InputEvent
    \/ DebounceFire
    \/ KeyDown
    \/ MouseDownRow
    \/ MouseDownManual
    \/ OutsideClick
    \/ FetchDone
    \/ Clear
    \/ SetValue

Spec == Init /\ [][Next]_vars

\* The behaviours checked for liveness: at most MaxLiveEvents events, lookups
\* started by the pre-warm, by focus events and by setValue (the debounce timer
\* starts them as a focus event on an uncached query does), and every request
\* in flight resolves or rejects in the end.
Live == events < MaxLiveEvents

LiveNext ==
    \/ Live /\ Focus
    \/ Live /\ InputEvent
    \/ Live /\ KeyDown
    \/ Live /\ MouseDownRow
    \/ Live /\ OutsideClick
    \/ FetchDone
    \/ Live /\ Clear
    \/ Live /\ SetValue

FairSpec == Init /\ [][LiveNext]_vars /\ WF_vars(FetchDone)

\* The texts _onInput is run on, and the arguments of setValue, when the
\* fallback is checked.
TableTexts == Typed \cup { <<"b">> }
TableArgs  == { T_ab, <<"a">> }

\* The fallback as a function of the table and the query: the widget is
\* constructed on a page with a static table, and one lookup is started, by
\* _onInput on a text or by setValue on an argument.
TableInit ==
    /\ cfg \in TableConfigs
    /\ LET w0 == _fetchTickers(Constructed, <<>>, "prewarm")
       IN \/ \E text \in TableTexts :
                LET w == _onInput([w0 EXCEPT !.dom.value = text])
                IN ts = w.ts /\ dom = w.dom /\ net = w.net /\ ev = [op |-> "debounce"]
          \/ \E ticker \in TableArgs :
                LET w == setValue(w0, ticker)
                IN /\ ts = w.ts /\ dom = w.dom /\ net = w.net
                   /\ ev = [op |-> "setValue", ticker |-> ticker]
    /\ focused = TRUE
    /\ events = 0

\* The lookups in flight return, each with any outcome.
TableSpec == TableInit /\ [][FetchDone]_vars

----------------------------------------------------------------------------
(* Claims *)

\* The records of all cached lists, in no particular order.
cachedRecords(cache) == { cache[i].list[j] : <<i, j>> \in
                            { p \in (1..Len(cache)) \X (1..2) : p[2] <= Len(cache[p[1]].list) } }

\* C1: for every query q the remote endpoint / static fallback is consulted at
\* most once, whatever the sequence of pre-warm, focus, input and setValue.
C1_AtMostOneLookupPerQuery ==
    \A q \in BagToSet(net.calls) : CopiesIn(q, net.calls) <= 1

\* C2: no public operation (construct, clear, setValue) ends in a thrown error.
C2_NoPublicOperationThrows == net.thrown = FALSE

\* The step commits a selection by one of the ways the interface offers.
CommitEvent ==
    ev'.op \in {"mousedownRow", "mousedownManual", "Enter", "setValue", "fetchDone"}

\* C3: whenever selected is not null the input shows selected.ticker, and
\* selected is null until a pick, a manual entry or a programmatic set.
C3_InputShowsSelectedTicker ==
    [][ /\ ts'.selected # <<>> => dom'.value = ts'.selected[1].ticker
        /\ (ts.selected = <<>> /\ ts'.selected # <<>>) => CommitEvent ]_vars

\* C4: highlightedIndex is -1 or the index of a row the dropdown shows now.
C4_HighlightIsARenderedRow ==
    \/ ts.highlightedIndex = -1
    \/ ts.highlightedIndex \in 0..(Len(dom.items) - 1)

\* The first record of list whose ticker is t, as <<>> or <<record>>.
firstWithTicker(list, t) ==
    LET hits == { j \in 1..Len(list) : list[j].ticker = t }
    IN IF hits = {} THEN <<>>
       ELSE <<list[CHOOSE j \in hits : \A k \in hits : j <= k]>>

\* What the lookup of the step's fetchDone event returned to its caller.
returned ==
    IF ev'.path = "empty" THEN <<>> ELSE cacheGet(ts'.cache, ev'.task.query)

\* The step is one of the commits the claim lists: a mouse-down on a row or on
\* the manual row, Enter on a highlighted row, a setValue that finds its
\* ticker in the cache, or the lookup of a setValue returning a match.
CommitStep ==
    \/ ev'.op \in {"mousedownRow", "mousedownManual"}
    \/ /\ ev'.op = "Enter"
       /\ ts.highlightedIndex \in 0..(Len(ts.currentResults) - 1)
    \/ /\ ev'.op = "setValue"
       /\ \E r \in cachedRecords(ts.cache) : r.ticker = ev'.ticker
    \/ /\ ev'.op = "fetchDone"
       /\ ev'.task.kind = "setValue"
       /\ firstWithTicker(returned, ev'.task.query) # <<>>

\* C5: the change callback (when one is configured) is invoked exactly once by
\* every step that commits a selection, with the record then in selected, and
\* by no other step.
C5_OnChangeOncePerCommit ==
    [][ /\ CommitStep /\ cfg.onChange =>
            /\ Len(net'.onChange) = 1
            /\ ts'.selected = <<net'.onChange[1]>>
        /\ ~(CommitStep /\ cfg.onChange) => net'.onChange = <<>>
        /\ ~CommitStep => ts'.selected = ts.selected \/ ev'.op = "clear" ]_vars

\* A commit by mouse-down on a result row has called the callback once.
C5_Witness ==
    /\ ev.op = "mousedownRow"
    /\ Len(net.onChange) = 1
    /\ ts.selected = <<net.onChange[1]>>

\* The record a manual entry of ticker t commits.
manualRecord(t) == [ticker |-> t, name |-> <<>>, sector |-> <<>>, manual |-> TRUE]

\* C6 as claimed: a manual entry commits the upper-cased text that is in the
\* input at the moment the manual row is chosen, and shows it in the input.
C6_ManualTickerIsTextAtChoice ==
    ev.op = "mousedownManual" =>
        /\ ts.selected = <<manualRecord(toUpperCase(ev.text))>>
        /\ dom.value = toUpperCase(ev.text)

\* C6 as amended: the manual row is bound to the trimmed, upper-cased text the
\* input held when the lookup that rendered the row was started (by a focus
\* event or by the debounce timer), no other step rebinds it, and choosing the
\* row commits that text, upper-cased, as a manual record and shows it.
C6_ManualTickerIsRenderedQuery ==
    [][ LET q == toUpperCase(trim(dom.value))
            started == [query |-> q, kind |-> "onInput"]
        IN CASE ev'.op \in {"focus", "debounce"} ->
                    IF dom'.panel = "loading"
                    THEN /\ dom'.manualQ = <<>>
                         /\ net'.inflight = net.inflight (+) SetToBag({started})
                    ELSE /\ dom'.manualQ = q
                         /\ net'.inflight = net.inflight
             [] ev'.op = "fetchDone" /\ ev'.task.kind = "onInput" ->
                    dom'.manualQ = ev'.task.query
             [] ev'.op = "mousedownManual" ->
                    /\ ts'.selected = <<manualRecord(dom.manualQ)>>
                    /\ dom'.value = dom.manualQ
                    /\ dom.manualQ = toUpperCase(trim(dom.manualQ))
             [] OTHER -> dom'.manualQ = dom.manualQ ]_vars

\* A manual entry chosen while the input holds another text than the row's.
C6_Witness ==
    /\ ev.op = "mousedownManual"
    /\ ts.selected # <<>>
    /\ ts.selected[1].ticker # toUpperCase(ev.text)
    /\ ts.selected[1].ticker # toUpperCase(trim(ev.text))

\* C7: a lookup that fails with no static table returns the empty list and
\* stores the empty list in the cache under its query.
C7_EmptyResultIsCached ==
    [][ (ev'.op = "fetchDone" /\ ev'.path = "empty") =>
            /\ cached(ts'.cache, ev'.task.query)
            /\ cacheGet(ts'.cache, ev'.task.query) = <<>>
            /\ ev'.task.kind = "onInput" => ts'.currentResults = <<>> ]_vars

\* The loading indicator is hidden.
indicatorHidden == ~ts.loading /\ dom.spinnerDisplay = "none"

\* C8: every lookup that went to the network leaves loading false and the
\* spinner hidden when it completes, on each exit path; and when every request
\* resolves or rejects in the end and no further one is sent, the indicator is
\* hidden from some point on.
C8_IndicatorClearedOnEveryExit ==
    /\ [][ ev'.op = "fetchDone" => indicatorHidden' ]_vars
    /\ [](net.inflight = EmptyBag => indicatorHidden)
    /\ (<>[][net'.calls = net.calls]_vars) => <>[]indicatorHidden

\* A lookup has completed on the no-fallback path, the indicator is hidden.
C8_Witness ==
    /\ ev.op = "fetchDone"
    /\ ev.path = "empty"
    /\ indicatorHidden

\* C9: clear() leaves selected null, the input empty, the badge hidden, the
\* dropdown closed and the configured name field empty, read-only and showing
\* the auto-fill placeholder.
C9_ClearResets ==
    (ev.op = "clear" /\ cfg.input) =>
        /\ ts.selected = <<>>
        /\ dom.value = <<>>
        /\ dom.badgeDisplay = "none"
        /\ dom.dropdownDisplay = "none"
        /\ ~ts.dropdownVisible
        /\ cfg.nameField =>
              dom.nameEl = [value |-> <<>>, readOnly |-> TRUE,
                            placeholder |-> PlaceholderAuto]

\* clear() has been called on a manual selection, whose name field was editable.
C9_Witness ==
    /\ ev.op = "clear"
    /\ cfg.nameField
    /\ ev.had # <<>>
    /\ "manual" \in DOMAIN ev.had[1]
    /\ dom.nameEl.readOnly

\* What a pick of record r leaves: selected, input text, badge, closed dropdown.
committed(r) ==
    /\ ts'.selected = <<r>>
    /\ dom'.value = r.ticker
    /\ dom'.badgeDisplay = "block"
    /\ dom'.badgeText = r.name
    /\ ~ts'.dropdownVisible
    /\ dom'.dropdownDisplay = "none"
    /\ cfg.nameField => dom'.nameEl.value = r.name
    /\ cfg.onChange => net'.onChange = <<r>>

\* C10: setValue(t) commits a cached record whose ticker is t at once, sending
\* no request; without one it sets the input to t, leaves selected, and looks
\* t up: the first record with ticker t of the returned list is committed when
\* the lookup returns, nothing if there is none.
C10_SetValue ==
    [][ CASE ev'.op = "setValue" /\ cfg.input ->
                LET t == ev'.ticker
                    hits == { r \in cachedRecords(ts.cache) : r.ticker = t }
                IN IF hits # {}
                   THEN /\ \E r \in hits : committed(r)
                        /\ net'.calls = net.calls
                        /\ net'.inflight = net.inflight
                   ELSE /\ dom'.value = t
                        /\ ts'.selected = ts.selected
                        /\ net'.onChange = <<>>
                        /\ IF cached(ts.cache, t)
                           THEN net'.inflight = net.inflight /\ net'.calls = net.calls
                           ELSE /\ net'.inflight = net.inflight
                                      (+) SetToBag({[query |-> t, kind |-> "setValue"]})
                                /\ net'.calls = net.calls (+) SetToBag({t})
          [] ev'.op = "fetchDone" /\ ev'.task.kind = "setValue" ->
                LET match == firstWithTicker(returned, ev'.task.query)
                IN IF match # <<>>
                   THEN committed(match[1])
                   ELSE /\ ts'.selected = ts.selected
                        /\ dom'.value = dom.value
                        /\ net'.onChange = <<>>
          [] OTHER -> TRUE ]_vars

\* The lookup of a setValue has returned and its match is committed.
C10_Witness ==
    /\ ev.op = "fetchDone"
    /\ ev.task.kind = "setValue"
    /\ ts.selected # <<>>
    /\ ts.selected[1].ticker = ev.task.query
    /\ dom.value = ev.task.query

\* The step has committed rendered row r: selected, input text, badge, dropdown.
rowCommitted(r) ==
    /\ ts'.selected = <<r>>
    /\ dom'.value = r.ticker
    /\ dom'.badgeDisplay = "block"
    /\ dom'.badgeText = r.name
    /\ ~ts'.dropdownVisible
    /\ dom'.dropdownDisplay = "none"

\* C11: committing a rendered result row, by mouse-down on it or by Enter while
\* it is the highlighted one, sets selected to the row's record and the input
\* text to the record's ticker whatever the input held, shows the badge with
\* the record's name and leaves the dropdown closed.
C11_CommitOfRenderedRow ==
    [][ /\ ev'.op = "mousedownRow" => rowCommitted(dom.items[ev'.row])
        /\ (ev'.op = "Enter" /\ ts.highlightedIndex \in 0..(Len(dom.items) - 1)) =>
              rowCommitted(dom.items[ts.highlightedIndex + 1]) ]_vars

\* The rows were rendered for the typed text " a" (query "A"), and the second
\* row, ticker "A", has been committed by mouse-down.
C11_Witness ==
    /\ ev.op = "mousedownRow"
    /\ ev.row = 2
    /\ dom.manualQ = T_A
    /\ ts.selected = <<R_A>>
    /\ dom.value = T_A
    /\ dom.badgeDisplay = "block"

\* The dropdown is open on a list of results and one of its rows is highlighted.
openOnHighlightedRow ==
    /\ ts.dropdownVisible
    /\ dom.panel = "results"
    /\ ts.highlightedIndex \in 0..(Len(dom.items) - 1)

\* C12: Enter commits only while the dropdown is open on results with a
\* highlighted row, and then commits that row; with the dropdown closed or on
\* the loading panel, Enter changes neither selected nor the input text and
\* does not call the change callback.
C12_EnterOnlyOnOpenResults ==
    [][ ev'.op = "Enter" =>
            IF openOnHighlightedRow
            THEN ts'.selected = <<dom.items[ts.highlightedIndex + 1]>>
            ELSE /\ ts'.selected = ts.selected
                 /\ dom'.value = dom.value
                 /\ net'.onChange = <<>> ]_vars

\* C13: when a lookup started by _onInput returns, its list is rendered,
\* whatever the input holds by then and whatever other lookups are in flight
\* or have returned since it was started; and no request is cancelled or
\* discarded: a request leaves the set in flight only by completing.
C13_LastResolvedIsRendered ==
    [][ IF ev'.op = "fetchDone"
        THEN /\ net'.inflight = net.inflight (-) SetToBag({ev'.task})
             /\ ev'.task.kind = "onInput" =>
                   /\ dom'.items = returned
                   /\ ts'.currentResults = returned
                   /\ dom'.manualQ = ev'.task.query
                   /\ dom'.panel # "loading"
        ELSE net.inflight \sqsubseteq net'.inflight ]_vars

\* The input holds the typed text " a"; the lookup of its query "A" has been
\* started (no timer pending) and has returned (it is cached); and the list of
\* an older, different query has just been rendered over it.
C13_Witness ==
    /\ ev.op = "fetchDone"
    /\ ev.task.kind = "onInput"
    /\ ev.task.query # T_A
    /\ dom.value = <<" ", "a">>
    /\ ~ts.debounceTimer
    /\ cached(ts.cache, T_A)
    /\ dom.manualQ = ev.task.query
    /\ dom.items = ts.currentResults
    /\ dom.panel # "loading"

\* The last step closed the dropdown: an outside click, Escape, a pick by
\* mouse-down, a manual entry or clear() was handled and the dropdown is closed.
justClosed ==
    /\ ev.op \in {"click", "Escape", "mousedownRow", "mousedownManual", "clear"}
    /\ ~ts.dropdownVisible
    /\ dom.dropdownDisplay = "none"

\* C14: a dropdown that has been closed stays closed until the next focus or
\* text-input event; checked on the step that follows the close: unless it is
\* a focus event it leaves the dropdown closed, be it the firing of a debounce
\* timer armed before the close or the completion of a lookup started before it.
C14_ClosedStaysClosed ==
    [][ (justClosed /\ ev'.op # "focus") =>
            /\ ~ts'.dropdownVisible
            /\ dom'.dropdownDisplay = "none" ]_vars

\* C15: at most one debounce timer is pending at any time, and it is the one
\* the handle names; an input event cancels the pending timer, arms a new one
\* and runs no lookup itself; the firing of the timer runs _onInput once, for
\* the normalized text the input holds at that moment (one request for it, or
\* its cached list rendered); no other step arms, cancels or fires a timer. So
\* a burst of input events is followed by one _onInput.
C15_OneDebouncedOnInput ==
    /\ [](net.timers \in {0, 1} /\ (ts.debounceTimer <=> net.timers = 1))
    /\ [][ LET q == toUpperCase(trim(dom.value))
           IN CASE ev'.op = "input" ->
                      /\ net'.timers = 1
                      /\ net'.calls = net.calls
                      /\ net'.inflight = net.inflight
                [] ev'.op = "debounce" ->
                      /\ net.timers = 1
                      /\ net'.timers = 0
                      /\ IF cached(ts.cache, q)
                         THEN /\ net'.calls = net.calls
                              /\ net'.inflight = net.inflight
                              /\ dom'.items = cacheGet(ts.cache, q)
                              /\ dom'.manualQ = q
                         ELSE /\ net'.calls = net.calls (+) SetToBag({q})
                              /\ net'.inflight = net.inflight
                                    (+) SetToBag({[query |-> q, kind |-> "onInput"]})
                              /\ dom'.panel = "loading"
                [] OTHER -> net'.timers = net.timers ]_vars

\* The second input event of a burst has been handled: it found a timer
\* pending, and one timer is pending after it.
C15_Witness ==
    /\ ev.op = "input"
    /\ ev.pending
    /\ net.timers = 1
    /\ ts.debounceTimer

\* C16: a focus event whose normalized text (trimmed, upper-cased) is a key of
\* the cache, be its list empty, opens the dropdown on the cached list with
\* highlightedIndex -1 and sends no request; otherwise it opens the dropdown
\* on the loading panel and sends a request for that normalized query.
C16_FocusOpensCachedOrLoads ==
    [][ ev'.op = "focus" =>
          LET q == toUpperCase(trim(dom.value))
          IN /\ ts'.dropdownVisible
             /\ dom'.dropdownDisplay = "block"
             /\ IF cached(ts.cache, q)
                THEN /\ dom'.items = cacheGet(ts.cache, q)
                     /\ ts'.currentResults = cacheGet(ts.cache, q)
                     /\ dom'.panel = IF cacheGet(ts.cache, q) = <<>>
                                     THEN "notfound" ELSE "results"
                     /\ ts'.highlightedIndex = -1
                     /\ net'.calls = net.calls
                     /\ net'.inflight = net.inflight
                ELSE /\ dom'.panel = "loading"
                     /\ dom'.items = <<>>
                     /\ net'.calls = net.calls (+) SetToBag({q})
                     /\ net'.inflight = net.inflight
                           (+) SetToBag({[query |-> q, kind |-> "onInput"]}) ]_vars

\* A focus event has found its query cached with an empty list: the dropdown
\* is open on the not-found panel and nothing is in flight.
C16_Witness ==
    /\ ev.op = "focus"
    /\ cached(ts.cache, toUpperCase(trim(dom.value)))
    /\ cacheGet(ts.cache, toUpperCase(trim(dom.value))) = <<>>
    /\ ts.dropdownVisible
    /\ dom.panel = "notfound"
    /\ net.inflight = EmptyBag

\* C17: every key of the query cache is a normalized query: equal to its own
\* trimmed, upper-cased form.
C17_CacheKeysAreNormalized ==
    \A k \in cacheKeys(ts.cache) : k = toUpperCase(trim(k))

\* C18: a key once stored in the cache stays in it, mapped to the list first
\* stored for it, whatever lookups are in flight or complete afterwards.
C18_CacheEntriesAreKept ==
    [][ \A k \in cacheKeys(ts.cache) :
            /\ cached(ts'.cache, k)
            /\ cacheGet(ts'.cache, k) = cacheGet(ts.cache, k) ]_vars

\* C19: while at least one lookup request is outstanding, loading is true and
\* the spinner is visible, whatever other lookups start or complete meanwhile.
C19_IndicatorShownWhileOutstanding ==
    net.inflight # EmptyBag => (ts.loading /\ dom.spinnerDisplay = "block")

\* Text s starts with text p, letter case apart.
startsWithAnyCase(s, p) ==
    /\ Len(p) <= Len(s)
    /\ \A i \in 1..Len(p) : UpperChar(s[i]) = UpperChar(p[i])

\* Text s contains text p, letter case apart.
containsAnyCase(s, p) ==
    \E k \in 0..(Len(s) - Len(p)) : \A i \in 1..Len(p) : UpperChar(s[k + i]) = UpperChar(p[i])

\* The first n entries of list.
firstN(list, n) == [i \in 1..(IF Len(list) < n THEN Len(list) ELSE n) |-> list[i]]

\* The fallback result the claim describes, for table and query q.
claimedFallback(table, q) ==
    IF q = <<>>
    THEN firstN(table, 50)
    ELSE firstN(SelectSeq(table, LAMBDA t : \/ startsWithAnyCase(t.ticker, q)
                                            \/ containsAnyCase(t.name, q)), 30)

\* C20: a lookup for q that fails while a static table is available returns,
\* in table order, the first 50 entries for the empty q and otherwise the first
\* 30 entries whose symbol starts with q or whose name contains q, letter case
\* apart in both; that list is stored in the cache under q and returned.
C20_FallbackResult ==
    [][ (ev'.op = "fetchDone" /\ ev'.path = "fallback") =>
          LET q == ev'.task.query
          IN /\ cached(ts'.cache, q)
             /\ cacheGet(ts'.cache, q) = claimedFallback(cfg.table, q)
             /\ ev'.task.kind = "onInput" =>
                   /\ dom'.items = claimedFallback(cfg.table, q)
                   /\ ts'.currentResults = claimedFallback(cfg.table, q) ]_vars

====
